---- MODULE Spec2Model ----
(***************************************************************************)
(* The post-scheduling subsystem of the dashboard backend:                 *)
(*   - SchedulerService (services/scheduler_service.py) on top of an       *)
(*     APScheduler AsyncIOScheduler with a MemoryJobStore,                 *)
(*   - the HTTP handlers of api/v1/posts.py that drive it,                 *)
(*   - the Post Store (PostService / PostRepository over one collection),  *)
(*   - the Social Publisher (FacebookService.create_post).                 *)
(* Everything runs on one asyncio event loop: a step of the model is the   *)
(* code a coroutine runs between two awaits that reach the network.        *)
(* Time is counted in ticks of one sweep interval (one minute).            *)
(***************************************************************************)
EXTENDS Integers, FiniteSets, Sequences, Bags, TLC

(***************************************************************************)
(* Bounds of the model.                                                    *)
(***************************************************************************)
MaxTime == 2            \* the clock runs over 0..MaxTime
MaxOps == 3             \* requests, service calls and store failures in a run
MaxRequests == 2        \* HTTP handlers suspended at an await at once
MaxSweeps == 1          \* sweep runs in flight at once (at most max_instances)
MaxUploads == 2         \* add-images requests suspended before their push

PostOrder == <<"p1", "p2">>  \* the post ids, in the order the store lists them
Posts == {PostOrder[i] : i \in 1..Len(PostOrder)}
Requested == {"p1"}     \* the posts that requests and direct calls address
Times == 0..MaxTime

(***************************************************************************)
(* Values of the program.                                                  *)
(***************************************************************************)
None == -1              \* Python None for an Optional[datetime]
NoToken == "none"       \* Python None for an Optional[str] token
NoId == "none"          \* Python None for facebook_post_id
NoPost == "none"
Tokens == {"tok"}
ConfigToken == "cfg"
RemoteId == "fb"

DRAFT == "draft"
PUBLISHED == "published"
SCHEDULED == "scheduled"
ARCHIVED == "archived"
PostStatus == {DRAFT, PUBLISHED, SCHEDULED, ARCHIVED}

max_instances == 3

VARIABLES
    now,            \* datetime.utcnow(), in ticks
    state,          \* AsyncIOScheduler.state: "new", "running", "shutdown"
    jobs,           \* MemoryJobStore: the publish_post_<id> jobs
    pending,        \* BaseScheduler._pending_jobs (jobs added while stopped)
    store,          \* the posts collection: post id -> document
    reqs,           \* HTTP handlers suspended at an await of the store
    tasks,          \* bag of running coroutines: timer dispatches, sweep runs
    defaultToken,   \* settings.FACEBOOK_ACCESS_TOKEN
    ops,            \* requests, service calls and store failures so far
    hist            \* per post: what has happened to it (observation only)

vars == <<now, state, jobs, pending, store, reqs, tasks, defaultToken, ops, hist>>

(***************************************************************************)
(* Post Store: models/post.py and repositories/post_repository.py.         *)
(***************************************************************************)
\* The fields PostUpdate declares; pydantic ignores any other keyword.
PostUpdateFields ==
    {"title", "description", "price", "category", "location", "status",
     "scheduled_at"}

\* PostUpdate(**kwargs).dict(exclude_unset=True): the declared fields that
\* were passed, each with the value passed (an explicit None included).
PostUpdate(kwargs) ==
    [f \in (DOMAIN kwargs) \cap PostUpdateFields |-> kwargs[f]]

\* PostCreate(**body): the validator of scheduled_at runs only when the field
\* is given (pydantic does not validate a default); status defaults to
\* published. TRUE when the body is accepted.
PostCreateValid(body, t) ==
    LET status == IF "status" \in DOMAIN body THEN body["status"] ELSE PUBLISHED
    IN  "scheduled_at" \in DOMAIN body /\ status = SCHEDULED
            => body["scheduled_at"] # None /\ body["scheduled_at"] > t

\* PostInDB(**post_data.dict()): the document create_post inserts.
PostInDB(body) ==
    [exists |-> TRUE,
     status |-> IF "status" \in DOMAIN body THEN body["status"] ELSE PUBLISHED,
     scheduled_at |-> IF "scheduled_at" \in DOMAIN body
                      THEN body["scheduled_at"] ELSE None,
     facebook_post_id |-> NoId]

\* A post id with no document (never created, or deleted).
NoDocument ==
    [exists |-> FALSE, status |-> DRAFT, scheduled_at |-> None,
     facebook_post_id |-> NoId]

\* collection.update_one({"_id": id}, {"$set": update_dict}) on a document.
SetFields(doc, update_dict) ==
    [f \in DOMAIN doc |->
        IF f \in DOMAIN update_dict THEN update_dict[f] ELSE doc[f]]

\* PostRepository.update_post / PostService.update_post: the store after the
\* update. A missing post and an empty update_dict change nothing.
update_post(st, post_id, update_data) ==
    IF st[post_id].exists /\ DOMAIN update_data # {}
    THEN [st EXCEPT ![post_id] = SetFields(st[post_id], update_data)]
    ELSE st

\* PostService.schedule_post: status = scheduled and scheduled_at in one update.
schedule_post(st, post_id, scheduled_at) ==
    update_post(st, post_id,
        PostUpdate([status |-> SCHEDULED, scheduled_at |-> scheduled_at]))

\* PostRepository.get_scheduled_posts: status scheduled and scheduled_at <= now
\* ($lte never matches a null scheduled_at).
get_scheduled_posts(st, t) ==
    {p \in Posts : /\ st[p].exists
                   /\ st[p].status = SCHEDULED
                   /\ st[p].scheduled_at # None
                   /\ st[p].scheduled_at <= t}

\* SchedulePostRequest.validate_future_date.
validate_future_date(v, t) == v > t

(***************************************************************************)
(* Scheduler: APScheduler's AsyncIOScheduler as SchedulerService uses it.  *)
(* A job is [id, run_date, token]; id stands for "publish_post_<id>".      *)
(***************************************************************************)
Job(post_id, run_date, token) ==
    [id |-> post_id, run_date |-> run_date, token |-> token]

\* The collection get_job / remove_job / add_job work on: the job store while
\* the scheduler runs, the pending list while it is stopped.
Running == state = "running"
Table == IF Running THEN jobs ELSE pending

\* scheduler.get_job(job_id): the job, as a set of at most one element.
get_job(table, post_id) == {j \in table : j.id = post_id}

\* A faulty remove_job that leaves the job in place.
remove_job_kept(table, post_id) == table

\* scheduler.remove_job(job_id).
remove_job(table, post_id) == table \ get_job(table, post_id)

\* scheduler.add_job(..., id=job_id, replace_existing=True): the job store
\* replaces a job of the same id (ConflictingIdError -> update_job); the
\* pending list of a stopped scheduler just appends.
add_job(table, job, running) ==
    IF running
    THEN {j \in table : j.id # job.id} \cup {job}
    ELSE table \cup {job}

\* SchedulerService.schedule_post_publication: the table afterwards.
schedule_post_publication(table, post_id, scheduled_at, token, running) ==
    LET cleared == IF get_job(table, post_id) # {}
                   THEN remove_job(table, post_id) ELSE table
    IN  add_job(cleared, Job(post_id, scheduled_at, token), running)

\* Its return value: add_job accepts a job in every scheduler state (a
\* stopped scheduler queues it), so no exception reaches the except clause.
schedule_returns(running) == TRUE

\* A faulty cancel that finds the job and leaves it in the table.
cancel_scheduled_post_lookup_only(table, post_id) == table

\* SchedulerService.cancel_scheduled_post: the table afterwards, and its result.
cancel_scheduled_post(table, post_id) ==
    IF get_job(table, post_id) # {} THEN remove_job(table, post_id) ELSE table

\* A faulty cancel that reports success whatever it found.
cancel_returns_always(table, post_id) == TRUE

cancel_returns(table, post_id) == get_job(table, post_id) # {}

(***************************************************************************)
(* Coroutines in flight. A timer dispatch is one _publish_post call; a     *)
(* sweep run is one _process_scheduled_posts call, which awaits            *)
(* _publish_post inline for each due post. pc names the next step.         *)
(***************************************************************************)
\* at is the utcnow() a sweep run has put in its query (None otherwise).
Task(kind, pc, post, token, fbid, todo) ==
    [kind |-> kind, pc |-> pc, post |-> post, token |-> token,
     fbid |-> fbid, todo |-> todo, at |-> None]

Spawn(bag, t) == bag (+) SetToBag({t})
Kill(bag, t) == bag (-) SetToBag({t})
CountKind(bag, kind) ==
    LET S == {t \in BagToSet(bag) : t.kind = kind}
        RECURSIVE Sum(_)
        Sum(X) == IF X = {} THEN 0
                  ELSE LET x == CHOOSE x \in X : TRUE
                       IN  CopiesIn(x, bag) + Sum(X \ {x})
    IN  Sum(S)

\* History kept per post, for stating properties only:
\*   nCreate       the id has been given to a document
\*   nSched        schedule requests and calls made for the post
\*   calls         Social Publisher calls made for the post
\*   writes        status updates a dispatch applied to the post
\*   lastRet       what the last schedule_post_publication returned, and
\*                 whether the scheduler was running then; after a
\*                 cancel_scheduled_post call, "cancel_true" when a call made
\*                 since the last schedule call returned true, "cancel_false"
\*                 otherwise
\*   plain         nothing but schedule requests, the clock, the timer and the
\*                 sweep has acted on the post since it was created unscheduled
\*   early         the second schedule request came while the job of the first
\*                 was still in the table
\*   cancelled     a cancel request was issued before the fire time, and the
\*                 post has not been scheduled or updated since
\*   regSinceFire  a job was registered for the post after its last timer fire
\*   lastWriter    the kind of dispatch that last updated the post's status;
\*                 "failed" once a status update of the post has failed, and
\*                 "redispatched" once a sweep run whose query was answered
\*                 after the failure has dispatched the post; "abandoned" once a
\*                 dispatch has found no post under the id
\*   failed        a Social Publisher call for the post has failed
NoHistory ==
    [nCreate |-> 0, nSched |-> 0, calls |-> 0, writes |-> 0,
     lastRet |-> "none", plain |-> TRUE, early |-> FALSE, cancelled |-> FALSE,
     regSinceFire |-> FALSE, lastWriter |-> "none", failed |-> FALSE]

\* lastRet after cancel_scheduled_post returned ret.
AfterCancel(lastRet, ret) ==
    IF ret \/ lastRet = "cancel_true" THEN "cancel_true" ELSE "cancel_false"

\* The counters of the history count 0, 1, "2 or more".
Bump(h, p, f) == [h EXCEPT ![p][f] = IF @ < 2 THEN @ + 1 ELSE @]

\* nSched, calls, writes, early, failed and the dispatch kind in lastWriter are
\* kept for a plain post only: once something else has acted on the post they
\* are cleared.
Seen(h) ==
    [p \in Posts |->
        IF h[p].plain THEN h[p]
        ELSE [h[p] EXCEPT !.nSched = 0, !.calls = 0, !.writes = 0,
                          !.early = FALSE,
                          !.lastWriter = IF @ \in {"failed", "redispatched",
                                                    "abandoned"}
                                         THEN @ ELSE "none",
                          !.failed = FALSE]]

\* Request bodies of POST /posts: no scheduling field (status defaults to
\* published), a status alone, or a status with a scheduled_at.
CreateBodies ==
    {<<>>, [status |-> DRAFT], [status |-> SCHEDULED]}
        \cup {[status |-> SCHEDULED, scheduled_at |-> v] : v \in {None, 0, MaxTime}}

\* Request bodies of PUT /posts/{id}: a status alone, or a scheduled_at (one
\* that is not in the future) alone.
UpdateBodies ==
    {[status |-> ARCHIVED], [status |-> SCHEDULED], [scheduled_at |-> 0]}

Min(a, b) == IF a < b THEN a ELSE b

(***************************************************************************)
(* Initial state: an empty collection, a constructed scheduler that has    *)
(* not been started, no request and no coroutine in flight.                *)
(***************************************************************************)
Init ==
    /\ now = 0
    /\ state = "new"
    /\ jobs = {}
    /\ pending = {}
    /\ store = [p \in Posts |-> NoDocument]
    /\ reqs = {}
    /\ tasks = EmptyBag
    /\ defaultToken \in {NoToken, ConfigToken}
    /\ ops = 0
    /\ hist = [p \in Posts |-> NoHistory]

(***************************************************************************)
(* Lifecycle: main.py lifespan -> start_scheduler / stop_scheduler.        *)
(***************************************************************************)
\* scheduler.start(): the pending jobs move into the job store (each added
\* with replace_existing), then the sweep's interval job is added.
StartScheduler ==
    /\ state = "new"
    /\ state' = "running"
    /\ jobs' = pending
    /\ pending' = {}
    /\ UNCHANGED <<now, store, reqs, tasks, defaultToken, hist, ops>>

\* scheduler.shutdown(wait=True): the executor cancels the coroutines it still
\* runs and MemoryJobStore.shutdown removes all jobs.
StopScheduler ==
    /\ state = "running"
    /\ reqs = {}
    /\ state' = "shutdown"
    /\ jobs' = {}
    /\ tasks' = EmptyBag
    /\ UNCHANGED <<now, pending, store, reqs, defaultToken, hist, ops>>

\* The clock. While the scheduler runs it wakes up at each job's run_date, so
\* a tick does not pass over a job that is due.
Tick ==
    /\ now < MaxTime
    /\ Running => \A j \in jobs : j.run_date > now
    /\ now' = now + 1
    /\ UNCHANGED <<state, jobs, pending, store, reqs, tasks, defaultToken, hist, ops>>

(***************************************************************************)
(* HTTP handlers of api/v1/posts.py. The application serves requests       *)
(* between the lifespan's startup, which starts the scheduler, and its     *)
(* shutdown, which stops it after the handlers in flight have returned.    *)
(***************************************************************************)
Serving == Running

\* A request in flight: pc names the handler's next step; doc is the document
\* a create request has sent to the store.
Request(kind, pc, post, at, token, ret) ==
    [kind |-> kind, pc |-> pc, post |-> post, at |-> at, token |-> token,
     ret |-> ret, doc |-> NoDocument]

\* POST /posts arrives: PostCreate validates the body against the clock of
\* that moment, PostRepository.create_post builds the document and awaits
\* insert_one. The id is new: a deleted id is not used again.
CreateArrives(p, body) ==
    /\ ops < MaxOps
    /\ ops' = ops + 1
    /\ Serving
    /\ Cardinality(reqs) < MaxRequests
    /\ ~store[p].exists
    /\ hist[p].nCreate = 0
    /\ \A r \in reqs : ~(r.kind = "create" /\ r.post = p)
    /\ PostCreateValid(body, now)
    /\ reqs' = reqs \cup {[Request("create", "store", p, None, NoToken, FALSE)
                               EXCEPT !.doc = PostInDB(body)]}
    /\ UNCHANGED <<now, state, jobs, pending, store, tasks, defaultToken,
                   hist>>

\* The store answers insert_one: the document is in the collection. (The
\* post is plain when it is created unscheduled and no cancel request, delete
\* request or failed store call has acted on its id before.)
CreateStore(r) ==
    /\ r \in reqs
    /\ r.kind = "create"
    /\ reqs' = reqs \ {r}
    /\ store' = [store EXCEPT ![r.post] = r.doc]
    /\ hist' = Seen([hist EXCEPT
                         ![r.post].nCreate = 1,
                         ![r.post].plain =
                             /\ r.doc.status # SCHEDULED
                             /\ hist[r.post].plain])
    /\ UNCHANGED <<now, state, jobs, pending, tasks, defaultToken, ops>>

\* The same step when the store raises at insert_one: the repository and the
\* service re-raise, the handler answers 400; no document is written and no
\* id is given out.
CreateStoreFails(r) ==
    /\ r \in reqs
    /\ r.kind = "create"
    /\ ops < MaxOps
    /\ ops' = ops + 1
    /\ reqs' = reqs \ {r}
    /\ UNCHANGED <<now, state, jobs, pending, store, tasks, defaultToken,
                   hist>>

\* PUT /posts/{id}: update_post with a PostUpdate body.
UpdatePost(p, body) ==
    /\ ops < MaxOps
    /\ ops' = ops + 1
    /\ Serving
    /\ store[p].exists
    /\ DOMAIN body # {}
    /\ store' = update_post(store, p, PostUpdate(body))
    /\ hist' = Seen([hist EXCEPT ![p].plain = FALSE, ![p].cancelled = FALSE])
    /\ UNCHANGED <<now, state, jobs, pending, reqs, tasks, defaultToken>>

\* POST /posts/{id}/schedule arrives: SchedulePostRequest validates the body
\* against the clock of that moment; the handler then awaits
\* post_service.schedule_post.
ScheduleArrives(p, at, token) ==
    /\ ops < MaxOps
    /\ ops' = ops + 1
    /\ Serving
    /\ Cardinality(reqs) < MaxRequests
    /\ validate_future_date(at, now)
    /\ reqs' = reqs \cup {Request("schedule", "store", p, at, token, FALSE)}
    /\ UNCHANGED <<now, state, jobs, pending, store, tasks, defaultToken,
                   hist>>

\* The store answers post_service.schedule_post: the post is written and the
\* handler goes on to the scheduler, or the post is missing and the request
\* ends with 404. (update_post's existence check and its update_one find the
\* same document or none: an id is never given to a second document.)
ScheduleStore(r) ==
    /\ r \in reqs
    /\ r.kind = "schedule" /\ r.pc = "store"
    /\ IF store[r.post].exists
       THEN /\ store' = schedule_post(store, r.post, r.at)
            /\ reqs' = (reqs \ {r}) \cup {[r EXCEPT !.pc = "register"]}
            /\ hist' = Seen([Bump(hist, r.post, "nSched") EXCEPT
                                 ![r.post].early =
                                     IF hist[r.post].nSched = 1
                                     THEN get_job(Table, r.post) # {} ELSE @,
                                 ![r.post].cancelled = FALSE])
       ELSE /\ reqs' = reqs \ {r}
            /\ UNCHANGED <<store, hist>>
    /\ UNCHANGED <<now, state, jobs, pending, tasks, defaultToken, ops>>

\* The same step when the store raises, at update_post's existence check or
\* at update_one: update_post re-raises, the handler answers 400 and the
\* request ends; the document is as it was and the scheduler is not called.
ScheduleStoreFails(r) ==
    /\ r \in reqs
    /\ r.kind = "schedule" /\ r.pc = "store"
    /\ ops < MaxOps
    /\ ops' = ops + 1
    /\ reqs' = reqs \ {r}
    /\ UNCHANGED <<now, state, jobs, pending, store, tasks, defaultToken,
                   hist>>

\* SchedulerService.schedule_post_publication as an action: the table the
\* scheduler is using is updated and the result is returned.
SchedulePublication(post_id, scheduled_at, token) ==
    /\ IF Running
       THEN /\ jobs' = schedule_post_publication(jobs, post_id, scheduled_at,
                                                 token, TRUE)
            /\ UNCHANGED pending
       ELSE /\ pending' = schedule_post_publication(pending, post_id,
                                                    scheduled_at, token, FALSE)
            /\ UNCHANGED jobs
    /\ hist' = [hist EXCEPT
                    ![post_id].lastRet =
                        IF ~schedule_returns(Running) THEN "false"
                        ELSE IF Running THEN "true" ELSE "true_stopped",
                    ![post_id].regSinceFire = TRUE]

\* The store answers the re-read that ends update_post. With the post, the
\* handler goes on, without suspending, to schedule_post_publication. With no
\* document (it was deleted after the write) PostInDB(**None) raises, the
\* handler answers 400 and the scheduler is not called.
ScheduleRegister(r) ==
    /\ r \in reqs
    /\ r.kind = "schedule" /\ r.pc = "register"
    /\ reqs' = reqs \ {r}
    /\ IF store[r.post].exists
       THEN SchedulePublication(r.post, r.at, r.token)
       ELSE UNCHANGED <<jobs, pending, hist>>
    /\ UNCHANGED <<now, state, store, tasks, defaultToken, ops>>

\* The same step when the store raises: update_post re-raises, the handler
\* answers 400 and the scheduler is not called; the document stays as written.
ScheduleRereadFails(r) ==
    /\ r \in reqs
    /\ r.kind = "schedule" /\ r.pc = "register"
    /\ ops < MaxOps
    /\ ops' = ops + 1
    /\ reqs' = reqs \ {r}
    /\ hist' = Seen([hist EXCEPT ![r.post].plain = FALSE])
    /\ UNCHANGED <<now, state, jobs, pending, store, tasks, defaultToken>>

\* schedule_post_publication called on the service object while the scheduler
\* is stopped: before start_scheduler has run, or after stop_scheduler.
CallSchedule(p, at, token) ==
    /\ ops < MaxOps
    /\ ops' = ops + 1
    /\ ~Running
    /\ LET counted == Bump(hist, p, "nSched")
       IN  /\ pending' = schedule_post_publication(pending, p, at, token, Running)
           /\ hist' = Seen([counted EXCEPT
                                ![p].lastRet = IF schedule_returns(Running)
                                               THEN "true_stopped" ELSE "false",
                                ![p].regSinceFire = TRUE])
    /\ UNCHANGED <<now, state, jobs, store, reqs, tasks, defaultToken>>

\* DELETE /posts/{id}/schedule, first step: scheduler_service.cancel_scheduled_post.
CancelJob(p) ==
    /\ ops < MaxOps
    /\ ops' = ops + 1
    /\ Serving
    /\ Cardinality(reqs) < MaxRequests
    /\ IF Running
       THEN jobs' = cancel_scheduled_post(jobs, p) /\ UNCHANGED pending
       ELSE pending' = cancel_scheduled_post(pending, p) /\ UNCHANGED jobs
    /\ reqs' = reqs \cup {Request("cancel", "store", p, None, NoToken,
                                   cancel_returns(Table, p))}
    /\ hist' = Seen([hist EXCEPT
                    ![p].plain = FALSE,
                    ![p].lastRet = AfterCancel(@, cancel_returns(Table, p)),
                    ![p].cancelled =
                        /\ store[p].exists
                        /\ store[p].status = SCHEDULED
                        /\ store[p].scheduled_at > now
                        /\ \E j \in get_job(Table, p) : j.run_date > now])
    /\ UNCHANGED <<now, state, store, tasks, defaultToken>>

\* Second step: update_post(post_id, PostUpdate(status=DRAFT, scheduled_at=None)).
CancelStore(r) ==
    /\ r \in reqs
    /\ r.kind = "cancel"
    /\ reqs' = reqs \ {r}
    /\ store' = update_post(store, r.post,
                    PostUpdate([status |-> DRAFT, scheduled_at |-> None]))
    /\ UNCHANGED <<now, state, jobs, pending, tasks, defaultToken, hist, ops>>

\* The same step when the store raises before update_one is applied:
\* update_post re-raises, the handler answers 400 and the request ends; the
\* post is as it was (still Scheduled, if it was) and its job stays removed.
\* (A failure of update_post's re-read leaves the state of CancelStore.)
CancelStoreFails(r) ==
    /\ r \in reqs
    /\ r.kind = "cancel"
    /\ ops < MaxOps
    /\ ops' = ops + 1
    /\ reqs' = reqs \ {r}
    /\ UNCHANGED <<now, state, jobs, pending, store, tasks, defaultToken,
                   hist>>

\* DELETE /posts/{id}, first step: the post's job is cancelled, whether the
\* store holds the post or not.
DeleteJob(p) ==
    /\ ops < MaxOps
    /\ ops' = ops + 1
    /\ Serving
    /\ Cardinality(reqs) < MaxRequests
    /\ IF Running
       THEN jobs' = cancel_scheduled_post(jobs, p) /\ UNCHANGED pending
       ELSE pending' = cancel_scheduled_post(pending, p) /\ UNCHANGED jobs
    /\ reqs' = reqs \cup {Request("delete", "store", p, None, NoToken,
                                   FALSE)}
    /\ hist' = Seen([hist EXCEPT
                         ![p].plain = FALSE, ![p].cancelled = FALSE,
                         ![p].lastRet = AfterCancel(@, cancel_returns(Table, p))])
    /\ UNCHANGED <<now, state, store, tasks, defaultToken>>

\* Second step: post_service.delete_post removes the document (404 when there
\* is none).
DeleteStore(r) ==
    /\ r \in reqs
    /\ r.kind = "delete"
    /\ reqs' = reqs \ {r}
    /\ store' = [store EXCEPT ![r.post] = NoDocument]
    /\ UNCHANGED <<now, state, jobs, pending, tasks, defaultToken, hist, ops>>

\* The same step when the store raises, at delete_post's lookup or at
\* delete_one: delete_post re-raises, the handler answers 400 and the request
\* ends; the document is kept and the post's job stays removed.
DeleteStoreFails(r) ==
    /\ r \in reqs
    /\ r.kind = "delete"
    /\ ops < MaxOps
    /\ ops' = ops + 1
    /\ reqs' = reqs \ {r}
    /\ UNCHANGED <<now, state, jobs, pending, store, tasks, defaultToken,
                   hist>>

(***************************************************************************)
(* Timer: APScheduler's _process_jobs on a due DateTrigger job.            *)
(***************************************************************************)
\* The job is handed to the executor and, having no next fire time, removed
\* from the job store at once, before the coroutine runs. The run is skipped
\* when max_instances runs of the job id are in flight, or when the run_date
\* was missed by more than the misfire grace time (one second: any whole tick).
TimerRuns(bag, post_id) ==
    LET S == {t \in BagToSet(bag) : t.kind = "timer" /\ t.post = post_id}
        RECURSIVE Sum(_)
        Sum(X) == IF X = {} THEN 0
                  ELSE LET x == CHOOSE x \in X : TRUE
                       IN  CopiesIn(x, bag) + Sum(X \ {x})
    IN  Sum(S)

\* A faulty scheduler that keeps a fired job in the job store.
AfterFire_kept(table, j) == table

\* The job store after job j was processed: a DateTrigger has no next fire
\* time, so _process_jobs removes the job.
AfterFire(table, j) == table \ {j}

Fire(j) ==
    /\ Running
    /\ j \in jobs
    /\ j.run_date <= now
    /\ jobs' = AfterFire(jobs, j)
    /\ tasks' = IF j.run_date < now \/ TimerRuns(tasks, j.id) >= max_instances
                THEN tasks
                ELSE Spawn(tasks,
                           Task("timer", "get", j.id, j.token, NoId, <<>>))
    /\ hist' = [hist EXCEPT ![j.id].regSinceFire = FALSE]
    /\ UNCHANGED <<now, state, pending, store, reqs, defaultToken, ops>>

(***************************************************************************)
(* Dispatch: SchedulerService._publish_post, step by step, and the sweep   *)
(* SchedulerService._process_scheduled_posts that awaits it inline.        *)
(***************************************************************************)
\* A faulty sweep whose guard is inverted: it visits the posts that have a job.
NextIdx_inverted(todo, table) ==
    LET S == {i \in 1..Len(todo) : get_job(table, todo[i]) # {}}
    IN  IF S = {} THEN 0 ELSE CHOOSE i \in S : \A k \in S : i <= k

\* The sweep's loop over the posts still to visit: the index of the first one
\* with no job in the table (0 when there is none). The posts before it have a
\* job and are skipped.
NextIdx(todo, table) ==
    LET S == {i \in 1..Len(todo) : get_job(table, todo[i]) = {}}
    IN  IF S = {} THEN 0 ELSE CHOOSE i \in S : \A k \in S : i <= k

\* A faulty sweep whose run ends with its first dispatch.
AfterDispatch_first_only(bag, t, todo, table) ==
    LET i == NextIdx(todo, table)
    IN  IF t.kind = "timer" \/ i = 0 \/ t.pc # "query"
        THEN bag (-) SetToBag({t})
        ELSE (bag (-) SetToBag({t}))
                 (+) SetToBag({[kind |-> "sweep", pc |-> "get",
                                post |-> todo[i], token |-> NoToken,
                                fbid |-> NoId,
                                todo |-> SubSeq(todo, i + 1, Len(todo)),
                                at |-> None]})

\* What runs when coroutine t leaves _publish_post (or the sweep gets its query
\* result) with `todo` left to visit: a timer dispatch is over; a sweep run
\* goes on, without suspending, to the next post that has no job and enters
\* _publish_post(post.id) for it, or ends.
AfterDispatch(bag, t, todo, table) ==
    LET i == NextIdx(todo, table)
    IN  IF t.kind = "timer" \/ i = 0
        THEN Kill(bag, t)
        ELSE Spawn(Kill(bag, t),
                   Task("sweep", "get", todo[i], NoToken, NoId,
                        SubSeq(todo, i + 1, Len(todo))))

\* A faulty lookup whose answer always passes for a post.
get_post_by_id_found(st, post_id) == TRUE

\* _publish_post lines 129-132: whether post_service.get_post_by_id answers
\* with a post; it answers None for an id the store does not hold.
get_post_by_id(st, post_id) == st[post_id].exists

\* A faulty resolution that prefers the configured credential.
resolve_credential_config_first(facebook_access_token, configured) ==
    IF configured # NoToken THEN configured ELSE facebook_access_token

\* _publish_post lines 136-141: the credential of the publisher call is the
\* token the job was registered with when there is one, and
\* settings.FACEBOOK_ACCESS_TOKEN otherwise.
resolve_credential(facebook_access_token, configured) ==
    IF facebook_access_token # NoToken THEN facebook_access_token
    ELSE configured

\* _publish_post lines 129-154: the store answers get_post_by_id. A missing post
\* ends the dispatch. Otherwise the coroutine goes on without suspending: it
\* resolves the credential and, when there is one, awaits _post_to_facebook
\* (FacebookService.create_post has no suspension point); the call returns a
\* result with an id, or None (every exception is caught on the way). The
\* coroutine then issues the status update and suspends on the store.
DispatchGet(t, ok) ==
    /\ t \in BagToSet(tasks)
    /\ t.pc = "get"
    /\ IF ~get_post_by_id(store, t.post)
       THEN /\ tasks' = AfterDispatch(tasks, t, t.todo, Table)
            /\ hist' = [hist EXCEPT ![t.post].lastWriter = "abandoned"]
       ELSE LET access_token == resolve_credential(t.token, defaultToken)
                called == access_token # NoToken
            IN  /\ tasks' = Spawn(Kill(tasks, t),
                              [t EXCEPT !.token = access_token,
                                        !.pc = "update",
                                        !.fbid = IF called /\ ok THEN RemoteId
                                                 ELSE NoId])
                /\ hist' = IF called
                           THEN Seen([Bump(hist, t.post, "calls") EXCEPT
                                         ![t.post].failed = @ \/ ~ok])
                           ELSE hist
    /\ UNCHANGED <<now, state, jobs, pending, store, reqs, defaultToken, ops>>

\* The same step when the store raises: post_service.get_post_by_id re-raises,
\* the except clause of _publish_post logs the error and the dispatch ends
\* without a publisher call.
DispatchGetFails(t) ==
    /\ t \in BagToSet(tasks)
    /\ t.pc = "get"
    /\ ops < MaxOps
    /\ ops' = ops + 1
    /\ tasks' = AfterDispatch(tasks, t, t.todo, Table)
    /\ hist' = Seen([hist EXCEPT ![t.post].plain = FALSE])
    /\ UNCHANGED <<now, state, jobs, pending, store, reqs, defaultToken>>

\* A faulty dispatch that marks the post Published only when the publisher
\* returned an identifier.
publish_update_on_success(fbid) ==
    IF fbid = NoId THEN PostUpdate([facebook_post_id |-> fbid])
    ELSE PostUpdate([status |-> PUBLISHED, facebook_post_id |-> fbid])

\* A faulty dispatch whose update also clears the post's scheduled_at.
publish_update_clearing(fbid) ==
    PostUpdate([status |-> PUBLISHED, scheduled_at |-> None,
                facebook_post_id |-> fbid])

\* _publish_post lines 156-162: the status update.
publish_update(fbid) ==
    PostUpdate([status |-> PUBLISHED, facebook_post_id |-> fbid])

\* The store answers the update_one of post_service.update_post: the document
\* is written and the coroutine awaits the re-read of the post, or there is no
\* document (update_post returns None at once) and the dispatch ends.
\* (update_post's existence check before it finds the same document or none.)
DispatchUpdate(t) ==
    /\ t \in BagToSet(tasks)
    /\ t.pc = "update"
    /\ store' = update_post(store, t.post, publish_update(t.fbid))
    /\ IF store[t.post].exists
       THEN /\ tasks' = Spawn(Kill(tasks, t), [t EXCEPT !.pc = "reread"])
            /\ hist' = Seen([Bump(hist, t.post, "writes") EXCEPT
                                 ![t.post].lastWriter = t.kind])
       ELSE /\ tasks' = AfterDispatch(tasks, t, t.todo, Table)
            /\ hist' = hist
    /\ UNCHANGED <<now, state, jobs, pending, reqs, defaultToken, ops>>

\* The store answers the re-read that ends update_post: with the post, and
\* update_post returns it; or with no document (it was deleted after the
\* write), and PostInDB(**None) raises, which _publish_post catches. Either
\* way the coroutine leaves _publish_post.
DispatchReread(t) ==
    /\ t \in BagToSet(tasks)
    /\ t.pc = "reread"
    /\ tasks' = AfterDispatch(tasks, t, t.todo, Table)
    /\ UNCHANGED <<now, state, jobs, pending, store, reqs, defaultToken, ops,
                   hist>>

\* The same step when the store raises: update_post re-raises, the except
\* clause of _publish_post logs the error and the dispatch ends; the document
\* stays as written.
DispatchRereadFails(t) ==
    /\ t \in BagToSet(tasks)
    /\ t.pc = "reread"
    /\ ops < MaxOps
    /\ ops' = ops + 1
    /\ tasks' = AfterDispatch(tasks, t, t.todo, Table)
    /\ hist' = Seen([hist EXCEPT ![t.post].plain = FALSE])
    /\ UNCHANGED <<now, state, jobs, pending, store, reqs, defaultToken>>

\* The update_one of the status update raises: the except clause of
\* _publish_post logs the error and the dispatch ends.
DispatchUpdateFails(t) ==
    /\ t \in BagToSet(tasks)
    /\ t.pc = "update"
    /\ ops < MaxOps
    /\ ops' = ops + 1
    /\ tasks' = AfterDispatch(tasks, t, t.todo, Table)
    /\ hist' = Seen([hist EXCEPT ![t.post].plain = FALSE,
                                 ![t.post].lastWriter = "failed"])
    /\ UNCHANGED <<now, state, jobs, pending, store, reqs, defaultToken>>

\* The interval job fires, unless max_instances runs of it are in flight: a
\* run of _process_scheduled_posts starts, get_scheduled_posts builds its query
\* with the utcnow() of that moment and the run awaits the store.
SweepStarts(limit) ==
    /\ Running
    /\ CountKind(tasks, "sweep") < limit
    /\ tasks' = Spawn(tasks, [Task("sweep", "query", NoPost, NoToken, NoId,
                                   <<>>) EXCEPT !.at = now])
    /\ UNCHANGED <<now, state, jobs, pending, store, reqs, defaultToken, ops,
                   hist>>

\* The store answers the query with the posts that are Scheduled and were due
\* when the query was built, and the loop starts.
SweepQuery(t) ==
    /\ t \in BagToSet(tasks)
    /\ t.pc = "query"
    /\ LET due == get_scheduled_posts(store, t.at)
           todo == SelectSeq(PostOrder, LAMBDA p : p \in due)
           i == NextIdx(todo, Table)
       IN  /\ tasks' = AfterDispatch(tasks, t, todo, Table)
           /\ hist' = IF i # 0 /\ hist[todo[i]].lastWriter = "failed"
                      THEN [hist EXCEPT ![todo[i]].lastWriter = "redispatched"]
                      ELSE hist
    /\ UNCHANGED <<now, state, jobs, pending, store, reqs, defaultToken, ops>>

\* The same step when the store raises: the except clause of
\* _process_scheduled_posts logs the error and the run ends.
SweepQueryFails(t) ==
    /\ t \in BagToSet(tasks)
    /\ t.pc = "query"
    /\ ops < MaxOps
    /\ ops' = ops + 1
    /\ tasks' = Kill(tasks, t)
    /\ UNCHANGED <<now, state, jobs, pending, store, reqs, defaultToken, hist>>

\* The sweep with at most MaxSweeps runs in flight.
SweepRun == SweepStarts(Min(MaxSweeps, max_instances))

Next ==
    \/ StartScheduler
    \/ StopScheduler
    \/ Tick
    \/ \E p \in Requested, body \in CreateBodies : CreateArrives(p, body)
    \/ \E r \in reqs : CreateStore(r)
    \/ \E r \in reqs : CreateStoreFails(r)
    \/ \E p \in Requested, body \in UpdateBodies : UpdatePost(p, body)
    \/ \E p \in Requested, at \in Times, token \in Tokens \cup {NoToken} :
          ScheduleArrives(p, at, token)
    \/ \E r \in reqs : ScheduleStore(r)
    \/ \E r \in reqs : ScheduleStoreFails(r)
    \/ \E r \in reqs : ScheduleRegister(r)
    \/ \E r \in reqs : ScheduleRereadFails(r)
    \/ \E p \in Requested, at \in Times, token \in Tokens \cup {NoToken} :
          CallSchedule(p, at, token)
    \/ \E p \in Requested : CancelJob(p)
    \/ \E r \in reqs : CancelStore(r)
    \/ \E r \in reqs : CancelStoreFails(r)
    \/ \E p \in Requested : DeleteJob(p)
    \/ \E r \in reqs : DeleteStore(r)
    \/ \E r \in reqs : DeleteStoreFails(r)
    \/ \E j \in jobs : Fire(j)
    \/ \E t \in BagToSet(tasks), ok \in BOOLEAN : DispatchGet(t, ok)
    \/ \E t \in BagToSet(tasks) : DispatchGetFails(t)
    \/ \E t \in BagToSet(tasks) : DispatchUpdate(t)
    \/ \E t \in BagToSet(tasks) : DispatchUpdateFails(t)
    \/ \E t \in BagToSet(tasks) : DispatchReread(t)
    \/ \E t \in BagToSet(tasks) : DispatchRereadFails(t)
    \/ SweepRun
    \/ \E t \in BagToSet(tasks) : SweepQuery(t)
    \/ \E t \in BagToSet(tasks) : SweepQueryFails(t)

Spec == Init /\ [][Next]_vars

(***************************************************************************)
(* SchedulerService.get_scheduled_jobs. A job id is the pair of its prefix *)
(* and what follows it: <<"publish_post_", post id>> for a per-post job,   *)
(* <<"process_scheduled_posts">> for the sweep's interval job.             *)
(***************************************************************************)
\* scheduler.get_jobs(): the jobs of the job store while the scheduler runs,
\* the sweep's interval job among them (start_scheduler adds it); the pending
\* jobs while it is stopped. A pending job has no next_run_time attribute: it
\* is set when the job is really added to a job store.
get_jobs(st, js, pend) ==
    IF st = "running"
    THEN {[id |-> <<"publish_post_", j.id>>, has_next_run_time |-> TRUE,
           next_run_time |-> j.run_date] : j \in js}
         \cup {[id |-> <<"process_scheduled_posts">>,
                has_next_run_time |-> TRUE, next_run_time |-> None]}
    ELSE {[id |-> <<"publish_post_", j.id>>, has_next_run_time |-> FALSE,
           next_run_time |-> None] : j \in pend}

\* get_scheduled_jobs(): one entry per job whose id starts with
\* "publish_post_"; reading job.next_run_time of a pending job raises
\* AttributeError, which the except clause turns into an empty list.
get_scheduled_jobs(st, js, pend) ==
    LET publish == {j \in get_jobs(st, js, pend) : j.id[1] = "publish_post_"}
    IN  IF \E j \in publish : ~j.has_next_run_time
        THEN {}
        ELSE {[post_id |-> j.id[2], scheduled_at |-> j.next_run_time,
               job_id |-> j.id] : j \in publish}

(***************************************************************************)
(* Properties.                                                             *)
(***************************************************************************)
\* get_scheduled_jobs() lists a job for post p.
HasJob(p) ==
    \E e \in get_scheduled_jobs(state, jobs, pending) : e.post_id = p

\* A dispatch of post p starts in this step: a coroutine enters _publish_post.
DispatchStarts(p) ==
    \E t \in BagToSet(tasks') :
        /\ t.post = p
        /\ t.pc = "get"
        /\ CopiesIn(t, tasks') > CopiesIn(t, tasks)

\* C1: a post is never published twice for one scheduled fire. For a post
\* that was scheduled once and that nothing but the clock, the timer and the
\* sweep has acted on since, the Social Publisher is called at most once and
\* Published is written at most once, whatever the interleaving of the timer
\* dispatch and the sweep.
C1_PublishedAtMostOnce ==
    \A p \in Posts :
        hist[p].nSched = 1 /\ hist[p].plain
            => hist[p].calls <= 1 /\ hist[p].writes <= 1

\* The status update of coroutine t is applied in this step: the store writes
\* the document and the coroutine awaits the re-read.
Applies(t) ==
    /\ t.pc = "update"
    /\ CopiesIn(t, tasks') < CopiesIn(t, tasks)
    /\ CopiesIn([t EXCEPT !.pc = "reread"], tasks')
           > CopiesIn([t EXCEPT !.pc = "reread"], tasks)

\* Coroutine t leaves _publish_post in this step through its status update:
\* after the re-read of an applied update, or at an update that failed or
\* found no document; a shutdown that cancels it is not such a step.
DispatchEnds(t) ==
    /\ t.pc \in {"update", "reread"}
    /\ CopiesIn(t, tasks') < CopiesIn(t, tasks)
    /\ ~Applies(t)
    /\ state' = state

\* Coroutine t, waiting for the store's answer to its lookup, goes on in this
\* step as u, which has resolved the credential and been through the
\* publisher call.
Proceeds(t, u) ==
    /\ t.pc = "get" /\ u.pc = "update"
    /\ u.kind = t.kind /\ u.post = t.post /\ u.todo = t.todo
    /\ CopiesIn(t, tasks') < CopiesIn(t, tasks)
    /\ CopiesIn(u, tasks') > CopiesIn(u, tasks)

\* Coroutine t, waiting for the store's answer to its lookup, ends in this
\* step without going on to the publisher call and the status update.
Abandons(t) ==
    /\ t.pc = "get"
    /\ CopiesIn(t, tasks') < CopiesIn(t, tasks)
    /\ state' = state
    /\ \A u \in BagToSet(tasks') : ~Proceeds(t, u)

\* Coroutine t returns from _publish_post in this step: at its lookup, or
\* through its status update.
DispatchReturns(t) == Abandons(t) \/ DispatchEnds(t)

\* C2 as stated: when the timer dispatch of a post that was scheduled once,
\* by a schedule request, has run to completion, the post is Published and
\* the job table holds no job for it.
C2_PublishedAfterDispatch ==
    [][\A t \in BagToSet(tasks) :
          (/\ t.kind = "timer" /\ DispatchEnds(t)
           /\ hist[t.post].plain /\ hist[t.post].nSched = 1
           /\ hist[t.post].lastRet = "true")
              => /\ store'[t.post].exists
                 /\ store'[t.post].status = PUBLISHED
                 /\ get_job(jobs', t.post) = {}]_vars

\* C2 amended: when the timer dispatch of a post has run to completion (the
\* coroutine returns from _publish_post, at whichever step) the job table
\* holds no job for the post but one that a schedule call registered after
\* the fire. For a post that a schedule request scheduled once, before the
\* fire, and that nothing else has acted on, the table holds no job,
\* get_scheduled_jobs() lists none, and the post is there and Published at
\* the returning step, also when the re-read that ends update_post raised; the one exception is a store call of the dispatch that
\* raised before the status was written (the lookup or update_one): that step
\* leaves the document as it was, Scheduled unless a dispatch has already
\* written it Published.
C2_PublishedUnlessStoreFails ==
    [][\A t \in BagToSet(tasks) :
          t.kind = "timer" /\ DispatchReturns(t)
              => /\ get_job(jobs', t.post) # {} => hist'[t.post].regSinceFire
                 /\ (/\ hist[t.post].plain /\ hist[t.post].nSched = 1
                     /\ hist[t.post].lastRet = "true"
                     /\ ~hist[t.post].regSinceFire)
                        => /\ get_job(jobs', t.post) = {}
                           /\ ~HasJob(t.post)'
                           /\ store'[t.post].exists
                           /\ IF ops' = ops \/ t.pc = "reread"
                              THEN store'[t.post].status = PUBLISHED
                              ELSE /\ store'[t.post] = store[t.post]
                                   /\ \/ store'[t.post].status = SCHEDULED
                                      \/ /\ store'[t.post].status = PUBLISHED
                                         /\ hist[t.post].writes >= 1]_vars

\* Witness of C2: a post scheduled once for a future time and left alone was
\* published by its timer dispatch, which has ended, and has no job.
C2_Witness ==
    \E p \in Posts :
        /\ hist[p].nSched = 1 /\ hist[p].plain
        /\ hist[p].lastWriter = "timer" /\ hist[p].writes = 1
        /\ store[p].status = PUBLISHED
        /\ Running /\ ~HasJob(p)
        /\ tasks = EmptyBag

\* C3 as stated: after a cancel request issued before the fire time no
\* dispatch starts for the post until it is scheduled again, and when the
\* request's store update is done the post is Draft with scheduled_at cleared
\* and without a job.
C3_CancelStopsDispatch ==
    [][\A p \in Posts :
          /\ hist[p].cancelled /\ hist'[p].cancelled => ~DispatchStarts(p)
          /\ (\E r \in reqs \ reqs' : r.kind = "cancel" /\ r.post = p)
                /\ hist[p].cancelled /\ store[p].exists
                => /\ store'[p].status = DRAFT
                   /\ store'[p].scheduled_at = None
                   /\ get_job(jobs', p) = {}]_vars

\* C4 as stated: a post scheduled twice, the second time while the first job
\* was still in the table, and otherwise left alone, is published once.
C4_RescheduledPublishedOnce ==
    \A p \in Posts :
        hist[p].nSched = 2 /\ hist[p].plain /\ hist[p].early
            => hist[p].calls <= 1 /\ hist[p].writes <= 1

\* A restarted process: the scheduler runs with an empty job store (the
\* MemoryJobStore does not outlive the process), the collection holds whatever
\* documents the previous process left, and no request arrives.
\* The stores in which the requested posts hold documents of D and the store
\* holds nothing else.
StoresOf(D) ==
    {[p \in Posts |-> IF p \in Requested THEN f[p] ELSE NoDocument] :
        f \in [Requested -> D]}

Documents ==
    {NoDocument} \cup
    {[exists |-> TRUE, status |-> s, scheduled_at |-> v,
      facebook_post_id |-> NoId] : s \in PostStatus, v \in Times \cup {None}}

RecoveryInit ==
    /\ now \in Times
    /\ state = "running"
    /\ jobs = {}
    /\ pending = {}
    /\ store \in [Posts -> Documents]
    /\ reqs = {}
    /\ tasks = EmptyBag
    /\ defaultToken \in {NoToken, ConfigToken}
    /\ ops = 0
    /\ hist = [p \in Posts |-> NoHistory]

RecoveryNext ==
    \/ Tick
    \/ SweepRun
    \/ \E t \in BagToSet(tasks) : SweepQuery(t)
    \/ \E t \in BagToSet(tasks) : SweepQueryFails(t)
    \/ \E t \in BagToSet(tasks), ok \in BOOLEAN : DispatchGet(t, ok)
    \/ \E t \in BagToSet(tasks) : DispatchGetFails(t)
    \/ \E t \in BagToSet(tasks) : DispatchUpdate(t)
    \/ \E t \in BagToSet(tasks) : DispatchUpdateFails(t)
    \/ \E t \in BagToSet(tasks) : DispatchReread(t)
    \/ \E t \in BagToSet(tasks) : DispatchRereadFails(t)

\* The interval trigger starts a sweep run every minute and the event loop
\* resumes every coroutine whose await has completed; the store fails at most
\* MaxOps times.
RecoverySpec ==
    /\ RecoveryInit
    /\ [][RecoveryNext]_vars
    /\ WF_vars(SweepRun)
    /\ WF_vars(\E t \in BagToSet(tasks) : SweepQuery(t) \/ SweepQueryFails(t))
    /\ WF_vars(\E t \in BagToSet(tasks), ok \in BOOLEAN :
                   DispatchGet(t, ok) \/ DispatchGetFails(t))
    /\ WF_vars(\E t \in BagToSet(tasks) :
                   DispatchUpdate(t) \/ DispatchUpdateFails(t))
    /\ WF_vars(\E t \in BagToSet(tasks) :
                   DispatchReread(t) \/ DispatchRereadFails(t))

\* Post p is due and has no job: what the sweep looks for.
DueWithoutJob(p) ==
    p \in get_scheduled_posts(store, now) /\ get_job(jobs, p) = {}

\* C5: a post that is Scheduled, whose scheduled_at is at or before the
\* current time and that has no job in the job table is eventually set
\* Published by the sweep, without any schedule call.
C5_SweepRecovers ==
    \A p \in Posts : DueWithoutJob(p) ~> store[p].status = PUBLISHED

\* Witness of C5: a post found due without a job was published by the sweep.
C5_Witness ==
    \E p \in Posts :
        /\ hist[p].nSched = 0
        /\ hist[p].lastWriter = "sweep"
        /\ store[p].status = PUBLISHED
        /\ store[p].scheduled_at # None /\ store[p].scheduled_at <= now

\* C6 as stated: when the Social Publisher returned a remote identifier, the
\* dispatch's applied store update leaves that identifier in the post's
\* facebook_post_id.
C6_RemoteIdPersisted ==
    [][\A t \in BagToSet(tasks) :
          Applies(t) /\ t.fbid # NoId
              => store'[t.post].facebook_post_id = t.fbid]_vars

\* C7: the Social Publisher is called once in a dispatch, in the step that
\* takes it from reading the post to its store update. When the call fails the
\* dispatch carries no remote identifier; its update, once applied, leaves the
\* post Published with facebook_post_id unset, and the dispatch ends without
\* another call.
C7_PublisherFailureContained ==
    [][/\ \A p \in Posts :
             hist'[p].calls > hist[p].calls
                 => \E t \in BagToSet(tasks), fbid \in {NoId, RemoteId} :
                       LET u == [t EXCEPT !.pc = "update", !.fbid = fbid,
                                          !.token = IF t.token # NoToken
                                                    THEN t.token
                                                    ELSE defaultToken]
                       IN  /\ t.post = p /\ t.pc = "get"
                           /\ CopiesIn(t, tasks') < CopiesIn(t, tasks)
                           /\ CopiesIn(u, tasks') > CopiesIn(u, tasks)
       /\ \A t \in BagToSet(tasks) :
             /\ (Applies(t) /\ t.token # NoToken /\ t.fbid = NoId)
                   => /\ store'[t.post].status = PUBLISHED
                      /\ store'[t.post].facebook_post_id = NoId
                      /\ hist'[t.post].calls <= hist[t.post].calls
             /\ (DispatchEnds(t) /\ t.token # NoToken /\ t.fbid = NoId)
                   => hist'[t.post].calls <= hist[t.post].calls]_vars

\* Witness of C7: the publisher was called with a credential and failed, and
\* the post is Published without a remote identifier, its dispatch over.
C7_Witness ==
    \E p \in Posts :
        /\ hist[p].calls = 1 /\ hist[p].writes = 1
        /\ store[p].status = PUBLISHED
        /\ store[p].facebook_post_id = NoId
        /\ tasks = EmptyBag
        /\ hist[p].failed /\ hist[p].plain

\* C8 as stated: schedule_post_publication returns false whenever the
\* scheduler has not been started or has been shut down.
C8_FalseWhenStopped ==
    \A p \in Posts : hist[p].lastRet # "true_stopped"

\* C9 as stated: a post whose status is Scheduled has scheduled_at set.
C9_ScheduledHasTime ==
    \A p \in Posts :
        store[p].exists /\ store[p].status = SCHEDULED
            => store[p].scheduled_at # None

\* The schedule request r reaches schedule_post_publication in this step: the
\* re-read of its store update is answered with the post.
CallsScheduler(r) ==
    /\ r \in reqs \ reqs'
    /\ r.kind = "schedule" /\ r.pc = "register"
    /\ store[r.post].exists
    /\ ops' = ops

\* C10: the job table (the job store, and the pending list of a stopped
\* scheduler) never holds two jobs for one post, and a schedule request that
\* reaches schedule_post_publication leaves in it the job with that request's
\* fire time and token.
C10_OneJobPerPost ==
    [][/\ \A p \in Posts :
             /\ Cardinality(get_job(jobs', p)) <= 1
             /\ Cardinality(get_job(pending', p)) <= 1
       /\ \A r \in reqs :
             CallsScheduler(r)
                 => get_job(jobs', r.post) = {Job(r.post, r.at, r.token)}]_vars

\* Witness of C10: a post was scheduled a second time while its first job was
\* in the table, and the table holds a job for it.
C10_Witness ==
    \E p \in Posts :
        /\ hist[p].nSched = 2 /\ hist[p].early
        /\ hist[p].lastRet = "true"
        /\ reqs = {}
        /\ \E j \in jobs : j.id = p /\ j.run_date = store[p].scheduled_at

\* C11: cancel_scheduled_post returns true exactly when the table held a job
\* for the post, which the call removed; otherwise it returns false and leaves
\* the table as it was. In both cases no job for the post is left, so a second
\* call returns false; the jobs of other posts are untouched.
C11_CancelReturn ==
    [][\A r \in reqs' \ reqs :
          r.kind = "cancel"
              => /\ r.ret = (get_job(Table, r.post) # {})
                 /\ r.ret = (Table' # Table)
                 /\ get_job(Table', r.post) = {}
                 /\ ~r.ret => jobs' = jobs /\ pending' = pending
                 /\ hist[r.post].lastRet \in {"cancel_true", "cancel_false"}
                        => ~r.ret
                 /\ \A q \in Posts \ {r.post} :
                        get_job(Table', q) = get_job(Table, q)]_vars

\* Witness of C11: a cancel returned true for the post, and a second cancel
\* request, made with no schedule call in between, has returned false.
C11_Witness ==
    \E r \in reqs :
        /\ r.kind = "cancel" /\ ~r.ret
        /\ hist[r.post].lastRet = "cancel_true"
        /\ get_job(Table, r.post) = {}

\* C12 as stated: for a post that only schedule requests, the clock, the timer
\* and the sweep have acted on, and whose job was registered by a schedule
\* request, no dispatch starts before the fire time its most recent schedule
\* request wrote to the store.
C12_NoDispatchBeforeFireTime ==
    [][\A p \in Posts :
          (/\ hist[p].plain /\ hist'[p].plain
           /\ hist[p].lastRet = "true"
           /\ store[p].exists /\ store[p].scheduled_at # None
           /\ DispatchStarts(p))
              => store[p].scheduled_at <= now]_vars

\* The status update of coroutine t fails in this step: update_post raises,
\* at its update_one or at its re-read (the store raises, or the document
\* written is no longer there).
UpdateFails(t) ==
    /\ DispatchEnds(t)
    /\ \/ ops' # ops
       \/ t.pc = "reread" /\ ~store[t.post].exists

\* C13 as stated: when the status update at the end of a dispatch fails, a
\* post that a schedule request scheduled once and that nothing else has acted
\* on remains Scheduled.
C13_FailedUpdateKeepsScheduled ==
    [][\A t \in BagToSet(tasks) :
          (/\ UpdateFails(t)
           /\ hist[t.post].plain /\ hist[t.post].nSched = 1
           /\ hist[t.post].lastRet = "true"
           /\ store[t.post].exists)
              => store'[t.post].status = SCHEDULED]_vars

\* The store answers the query of sweep run t in this step and the run enters
\* _publish_post for post p or keeps p in the list of posts it goes on to
\* visit.
SweepTakes(t, p) ==
    /\ t.kind = "sweep" /\ t.pc = "query"
    /\ CopiesIn(t, tasks') < CopiesIn(t, tasks)
    /\ \E u \in BagToSet(tasks') :
           /\ u.kind = "sweep" /\ u.pc = "get"
           /\ CopiesIn(u, tasks') > CopiesIn(u, tasks)
           /\ \/ u.post = p
              \/ \E i \in 1..Len(u.todo) : u.todo[i] = p

\* The store answers the query of sweep run t in this step.
QueryAnswered(t) ==
    /\ t.kind = "sweep" /\ t.pc = "query"
    /\ CopiesIn(t, tasks') < CopiesIn(t, tasks)
    /\ ops' = ops
    /\ state' = state

\* C13 amended: when the status update at the end of a dispatch fails, nothing
\* but the dispatch ends: the store, the scheduler, the job table and the
\* clock are as they were, and the table holds a job for the post only if a
\* schedule call registered one after the post's last timer fire. A failure
\* at the re-read, after the write was applied, leaves a post that was
\* scheduled once and that nothing else has acted on Published. A sweep run
\* whose query is answered when a post whose update_one had failed is still
\* Scheduled, due at the time of the query and without a job takes the post;
\* a run whose query is answered when a post is Published does not take it.
C13_StoreFailureContained ==
    [][/\ \A t \in BagToSet(tasks) :
              UpdateFails(t)
                  => /\ store' = store /\ jobs' = jobs /\ pending' = pending
                     /\ now' = now /\ state' = state
                     /\ get_job(jobs', t.post) # {}
                            => hist'[t.post].regSinceFire
                     /\ t.pc = "reread"
                          /\ hist[t.post].plain /\ hist[t.post].nSched = 1
                          /\ store[t.post].exists
                            => store'[t.post].status = PUBLISHED
       /\ \A t \in BagToSet(tasks), p \in Posts :
              QueryAnswered(t) /\ store[p].exists
                  => /\ (/\ hist[p].lastWriter \in {"failed", "redispatched"}
                         /\ store[p].status = SCHEDULED
                         /\ store[p].scheduled_at # None
                         /\ store[p].scheduled_at <= t.at
                         /\ get_job(Table, p) = {})
                            => SweepTakes(t, p)
                     /\ store[p].status = PUBLISHED => ~SweepTakes(t, p)]_vars

\* Witness of C13: a status update of the post failed, and a sweep run that
\* started afterwards is dispatching the post again.
C13_Witness ==
    \E t \in BagToSet(tasks) :
        /\ t.kind = "sweep" /\ t.pc \in {"get", "update"}
        /\ hist[t.post].lastWriter = "redispatched"
        /\ store[t.post].status = SCHEDULED
        /\ get_job(jobs, t.post) = {}

(***************************************************************************)
(* schedule_post_publication called on a running scheduler with a fire     *)
(* time that is not in the future. A date job whose run time lies more     *)
(* than misfire_grace_time (APScheduler's default of one second, which     *)
(* _setup_scheduler leaves in place) in the past is taken out of the job   *)
(* store when the scheduler processes it and its run is skipped; one tick  *)
(* of the clock is longer than the grace time.                             *)
(***************************************************************************)
ScheduleNotFuture(p, at, token) ==
    /\ ops < MaxOps
    /\ ops' = ops + 1
    /\ Running
    /\ at <= now
    /\ SchedulePublication(p, at, token)
    /\ UNCHANGED <<now, state, store, reqs, tasks, defaultToken>>

NotFutureNext ==
    \/ RecoveryNext
    \/ \E p \in Requested, at \in Times, token \in Tokens \cup {NoToken} :
           ScheduleNotFuture(p, at, token)
    \/ \E j \in jobs : Fire(j)

\* A restarted process whose store holds the requested posts only.
NotFutureInit == RecoveryInit /\ store \in StoresOf(Documents)

NotFutureSpec == NotFutureInit /\ [][NotFutureNext]_vars

\* C14 as stated: a job that schedule_post_publication accepted (it returned
\* True) with a fire time that was not in the future, for a post of the store,
\* is not discarded without a dispatch: when the job leaves the job table, a
\* dispatch of its post starts.
C14_NoSilentDrop ==
    [][\A j \in jobs :
          (/\ hist[j.id].lastRet = "true"
           /\ store[j.id].exists
           /\ get_job(jobs', j.id) = {}
           /\ TimerRuns(tasks, j.id) < max_instances)
              => DispatchStarts(j.id)]_vars

\* C15: a timer dispatch starts with the token of the job that fired, which is
\* the token given at schedule time, and a sweep dispatch starts with none. The
\* credential the dispatch publishes with is that token when there is one and
\* the configured default only when there is none.
C15_CapturedTokenPreferred ==
    [][/\ \A u \in BagToSet(tasks') :
              u.pc = "get" /\ CopiesIn(u, tasks') > CopiesIn(u, tasks)
                  => IF u.kind = "timer"
                     THEN \E j \in jobs \ jobs' :
                              j.id = u.post /\ j.token = u.token
                     ELSE u.token = NoToken
       /\ \A t \in BagToSet(tasks), u \in BagToSet(tasks') :
              Proceeds(t, u)
                  => /\ t.token # NoToken => u.token = t.token
                     /\ t.token = NoToken => u.token = defaultToken
                     /\ u.fbid # NoId => u.token # NoToken]_vars

\* Witness of C15: a dispatch has published with the token captured at
\* schedule time although a default credential is configured.
C15_Witness ==
    \E u \in BagToSet(tasks) :
        /\ u.kind = "timer" /\ u.pc = "update"
        /\ u.token \in Tokens
        /\ u.fbid = RemoteId
        /\ defaultToken = ConfigToken

\* C16: a dispatch whose job captured no token, with no default credential
\* configured, makes no publisher call and goes on to the status update with
\* no remote identifier; the update, unless the store fails, sets the post
\* Published and leaves it without a facebook_post_id.
C16_NoCredentialStillPublished ==
    [][/\ \A t \in BagToSet(tasks), u \in BagToSet(tasks') :
              Proceeds(t, u) /\ t.token = NoToken /\ defaultToken = NoToken
                  => /\ u.token = NoToken /\ u.fbid = NoId
                     /\ hist'[t.post].calls <= hist[t.post].calls
                     /\ store' = store
       /\ \A t \in BagToSet(tasks) :
              Applies(t) /\ t.token = NoToken
                  => /\ store'[t.post].status = PUBLISHED
                     /\ store'[t.post].facebook_post_id = NoId]_vars

\* Witness of C16: with no credential at all the post was set Published by a
\* dispatch, without a publisher call and without a facebook_post_id.
C16_Witness ==
    \E p \in Posts :
        /\ defaultToken = NoToken
        /\ hist[p].plain /\ hist[p].writes = 1 /\ hist[p].calls = 0
        /\ store[p].status = PUBLISHED
        /\ store[p].facebook_post_id = NoId

\* C17: a dispatch that finds no post under its id in the store ends there:
\* no publisher call, no change to the store, the scheduler or the job table,
\* and nothing dispatches the post again: no coroutine for it starts, the job
\* that fired is not in the table and the sweep's query does not return the
\* post.
C17_MissingPostAbandoned ==
    [][\A t \in BagToSet(tasks) :
          t.pc = "get" /\ ~store[t.post].exists
                       /\ CopiesIn(t, tasks') < CopiesIn(t, tasks)
                       /\ state' = state
              => /\ Abandons(t)
                 /\ store' = store /\ jobs' = jobs /\ pending' = pending
                 /\ hist'[t.post].calls <= hist[t.post].calls
                 /\ hist'[t.post].writes <= hist[t.post].writes
                 /\ ~DispatchStarts(t.post)
                 /\ get_job(jobs', t.post) # {} => hist'[t.post].regSinceFire
                 /\ t.post \notin get_scheduled_posts(store', now')]_vars

\* Witness of C17: a dispatch found no post under its id and was abandoned;
\* the post has no job and no coroutine.
C17_Witness ==
    \E p \in Posts :
        /\ hist[p].lastWriter = "abandoned"
        /\ ~store[p].exists
        /\ hist[p].nCreate = 1
        /\ get_job(Table, p) = {}
        /\ \A t \in BagToSet(tasks) : t.post # p

(***************************************************************************)
(* The message of the publisher call: SchedulerService._post_to_facebook.  *)
(* The dispatch above keeps the listing fields of a post out of the store; *)
(* here the store holds them, and hist records, per post, what             *)
(* FacebookService.create_post was last called with and what came back.    *)
(* A price is a float with at most two decimals, held in hundredths.       *)
(***************************************************************************)
Titles == {"Bike", "Desk lamp", "A"}
Descriptions == {"Good shape", "Two lines\nof text"}
Prices == {0, 5, 50, 1999, 5000}
Locations == {"Austin", "New York"}
NoMessage == ""        \* nothing sent yet: a message is never empty

Listings ==
    {[exists |-> TRUE, status |-> SCHEDULED, scheduled_at |-> 0,
      facebook_post_id |-> NoId, title |-> t, description |-> d,
      price |-> c, location |-> l] :
        t \in Titles, d \in Descriptions, c \in Prices, l \in Locations}

\* str() of a Python float with at most two decimals, as the f-string
\* renders it: 50.0 gives "50.0", 19.99 gives "19.99", 0.5 gives "0.5".
str_float(hundredths) ==
    LET whole == hundredths \div 100
        frac == hundredths % 100
    IN  ToString(whole) \o "." \o
        (IF frac % 10 = 0 THEN ToString(frac \div 10)
         ELSE IF frac < 10 THEN "0" \o ToString(frac)
         ELSE ToString(frac))

\* A faulty template that leaves the price line out of a free listing.
message_parts_free(post) ==
    IF post.price = 0
    THEN <<post.title, "\n\n", post.description, "\nLocation: ", post.location>>
    ELSE <<post.title, "\n\n", post.description, "\n\nPrice: $",
           str_float(post.price), "\nLocation: ", post.location>>

\* The f-string of line 173, piece by piece: literal text and replacement
\* fields in the order they are written.
message_parts(post) ==
    <<post.title, "\n\n", post.description, "\n\nPrice: $",
      str_float(post.price), "\nLocation: ", post.location>>

RECURSIVE Join(_)
Join(parts) ==
    IF parts = <<>> THEN "" ELSE Head(parts) \o Join(Tail(parts))

RenderInit ==
    /\ now = 0
    /\ state = "running"
    /\ jobs = {}
    /\ pending = {}
    /\ store \in StoresOf(Listings)
    /\ reqs = {}
    /\ tasks = EmptyBag
    /\ defaultToken = NoToken
    /\ ops = 0
    /\ hist = [p \in Posts |-> [message |-> NoMessage, parts |-> <<>>,
                                access_token |-> NoToken, result |-> NoId]]

\* _post_to_facebook(post, access_token): builds the message and awaits
\* facebook_service.create_post(message=message, access_token=access_token),
\* whose result it returns.
PostToFacebook(p, access_token) ==
    /\ hist' = [hist EXCEPT ![p] = [message |-> Join(message_parts(store[p])),
                                    parts |-> message_parts(store[p]),
                                    access_token |-> access_token,
                                    result |-> RemoteId]]
    /\ UNCHANGED <<now, state, jobs, pending, store, reqs, tasks,
                   defaultToken, ops>>

RenderNext ==
    \E p \in Requested, access_token \in Tokens \cup {ConfigToken} :
        PostToFacebook(p, access_token)

RenderSpec == RenderInit /\ [][RenderNext]_vars

\* C18: the message handed to the publisher is the post's title, a blank
\* line, its description, a blank line, "Price: $" and its price, a line
\* break, "Location: " and its location: the four fields always, in that
\* order, with those separators and nothing else. The listing Bike / Good
\* shape / 50.0 / Austin gives "Bike\n\nGood shape\n\nPrice: $50.0\nLocation: Austin".
C18_MessageLayout ==
    \A p \in Posts :
        hist[p].message # NoMessage
            => /\ hist[p].message =
                      store[p].title \o "\n\n" \o store[p].description
                          \o "\n\nPrice: $" \o str_float(store[p].price)
                          \o "\nLocation: " \o store[p].location
               /\ Len(hist[p].parts) = 7
               /\ hist[p].parts[1] = store[p].title
               /\ hist[p].parts[3] = store[p].description
               /\ hist[p].parts[5] = str_float(store[p].price)
               /\ hist[p].parts[7] = store[p].location
               /\ (/\ store[p].title = "Bike"
                   /\ store[p].description = "Good shape"
                   /\ store[p].price = 5000
                   /\ store[p].location = "Austin")
                      => hist[p].message =
                             "Bike\n\nGood shape\n\nPrice: $50.0\nLocation: Austin"

\* Witness of C18: the publisher was called for a free listing, whose
\* message still has its price line.
C18_Witness ==
    \E p \in Posts :
        /\ hist[p].message # NoMessage
        /\ store[p].price = 0
        /\ hist[p].message = store[p].title \o "\n\n" \o store[p].description
                                 \o "\n\nPrice: $0.0\nLocation: "
                                 \o store[p].location

\* C19 as stated: get_scheduled_jobs, which reads the state and changes
\* nothing, returns one entry per job of the job table, with the post's id,
\* the job's fire time and the job's id, and no entry for the sweep's job.
C19_SnapshotListsJobs ==
    get_scheduled_jobs(state, jobs, pending)
        = {[post_id |-> j.id, scheduled_at |-> j.run_date,
            job_id |-> <<"publish_post_", j.id>>] : j \in Table}

\* C20 as stated: while a timer dispatch of a post is in flight and the post
\* is still Scheduled in the store, the job table holds the post's job.
C20_JobPresentDuringDispatch ==
    \A t \in BagToSet(tasks) :
        (/\ t.kind = "timer"
         /\ hist[t.post].plain /\ hist[t.post].nSched = 1
         /\ store[t.post].exists /\ store[t.post].status = SCHEDULED)
            => get_job(jobs, t.post) # {}

(***************************************************************************)
(* The job key of a post under direct calls of schedule_post_publication   *)
(* and cancel_scheduled_post, on a scheduler that is running or not yet    *)
(* started. Neither method has an await: each call is one step. The        *)
(* history of a post has two more fields here:                             *)
(*   last    the job of the last schedule call, as a set; empty after a    *)
(*           cancel call                                                    *)
(*   trail   the calls made for the post, in order                         *)
(***************************************************************************)
KeyInit ==
    /\ now = 0
    /\ state \in {"new", "running"}
    /\ jobs = {}
    /\ pending = {}
    /\ store \in StoresOf({d \in Documents : d.status = SCHEDULED
                                               /\ d.scheduled_at = MaxTime})
    /\ reqs = {}
    /\ tasks = EmptyBag
    /\ defaultToken \in {NoToken, ConfigToken}
    /\ ops = 0
    /\ hist = [p \in Posts |->
                  [f \in DOMAIN NoHistory \cup {"last", "trail"} |->
                      IF f = "last" THEN {}
                      ELSE IF f = "trail" THEN <<>>
                      ELSE NoHistory[f]]]

KeySchedule(p, at, token) ==
    /\ ops < MaxOps
    /\ ops' = ops + 1
    /\ state # "shutdown"
    /\ IF Running
       THEN /\ jobs' = schedule_post_publication(jobs, p, at, token, TRUE)
            /\ UNCHANGED pending
       ELSE /\ pending' = schedule_post_publication(pending, p, at, token, FALSE)
            /\ UNCHANGED jobs
    /\ hist' = [hist EXCEPT
                    ![p].lastRet = IF Running THEN "true" ELSE "true_stopped",
                    ![p].regSinceFire = TRUE,
                    ![p].last = {Job(p, at, token)},
                    ![p].trail = Append(@, "schedule")]
    /\ UNCHANGED <<now, state, store, reqs, tasks, defaultToken>>

KeyCancel(p) ==
    /\ ops < MaxOps
    /\ ops' = ops + 1
    /\ state # "shutdown"
    /\ IF Running
       THEN jobs' = cancel_scheduled_post(jobs, p) /\ UNCHANGED pending
       ELSE pending' = cancel_scheduled_post(pending, p) /\ UNCHANGED jobs
    /\ hist' = [hist EXCEPT
                    ![p].lastRet = AfterCancel(@, cancel_returns(Table, p)),
                    ![p].last = {},
                    ![p].trail = Append(@, "cancel")]
    /\ UNCHANGED <<now, state, store, reqs, tasks, defaultToken>>

KeyNext ==
    \/ StartScheduler
    \/ Tick
    \/ \E p \in Requested, at \in Times, token \in Tokens \cup {NoToken} :
           KeySchedule(p, at, token)
    \/ \E p \in Requested : KeyCancel(p)
    \/ \E j \in jobs : Fire(j)
    \/ \E t \in BagToSet(tasks), ok \in BOOLEAN : DispatchGet(t, ok)
    \/ \E t \in BagToSet(tasks) : DispatchUpdate(t)
    \/ \E t \in BagToSet(tasks) : DispatchReread(t)

KeySpec == KeyInit /\ [][KeyNext]_vars

\* The job the calls made so far leave registered for post p: the job of the
\* last schedule call, unless a cancel call or its own timer fire came after.
Registered(h, p) == IF h[p].regSinceFire THEN h[p].last ELSE {}

\* C21: the calls on a post's job key take effect one after the other, in the
\* order they are made. The job table holds for the post exactly the job of the
\* last schedule call (its fire time and its token), and nothing once a cancel
\* call or the job's fire has followed; a timer dispatch starts only by firing
\* that job, so a job that a cancel removed or a later schedule replaced does
\* not fire.
C21_JobKeyLinearizable ==
    [][\A p \in Posts :
          /\ get_job(Table, p) = Registered(hist, p)
          /\ get_job(Table', p) = Registered(hist', p)
          /\ \A t \in BagToSet(tasks') :
                 (/\ t.post = p /\ t.kind = "timer" /\ t.pc = "get"
                  /\ CopiesIn(t, tasks') > CopiesIn(t, tasks))
                     => /\ Registered(hist, p) # {}
                        /\ \A j \in Registered(hist, p) :
                               j.token = t.token /\ j.run_date = now
                        /\ Registered(hist', p) = {}]_vars

\* Witness of C21: after schedule, cancel, schedule the table holds the job of
\* the second schedule call, which differs from the job of the first.
C21_Witness ==
    \E p \in Posts :
        /\ hist[p].trail = <<"schedule", "cancel", "schedule">>
        /\ hist[p].lastRet = "true"
        /\ \E j \in jobs : j.id = p /\ j.run_date = MaxTime /\ j.token \in Tokens
        /\ now >= 1

\* C22 as stated: a cancel issued while a dispatch of the post is in flight
\* returns false.
C22_CancelDuringDispatchFalse ==
    [][\A r \in reqs' \ reqs :
          (/\ r.kind = "cancel"
           /\ \E t \in BagToSet(tasks) : t.post = r.post /\ t.pc # "query")
              => ~r.ret]_vars

\* C22 amended: cancel_scheduled_post acts on the job table only. Called
\* before the job's dispatch has started it removes the job, and a timer
\* dispatch starts only by firing a job that is in the table, so that dispatch
\* never starts. Called while a dispatch of the post is in flight it leaves
\* the coroutines as they are (the dispatch goes on to its end) and returns
\* true exactly when the table holds a job for the post, which it removes;
\* that is never the job of the dispatch in flight: when a dispatch starts the
\* table holds no job for its post, while one is in flight a job for the post
\* comes into the table only by a schedule call, and with a timer dispatch in
\* flight and no schedule call since the fire the cancel returns false.
C22_CancelStopsOnlyUnstarted ==
    [][/\ \A r \in reqs' \ reqs :
              r.kind = "cancel"
                  => /\ tasks' = tasks
                     /\ r.ret <=> get_job(Table, r.post) # {}
                     /\ get_job(Table', r.post) = {}
                     /\ (\E t \in BagToSet(tasks) :
                             /\ t.post = r.post /\ t.kind = "timer"
                             /\ ~hist[r.post].regSinceFire)
                            => ~r.ret
       /\ \A r \in reqs \ reqs' : r.kind = "cancel" => tasks' = tasks
       /\ \A t \in BagToSet(tasks') :
              (/\ t.kind = "timer" /\ t.pc = "get"
               /\ CopiesIn(t, tasks') > CopiesIn(t, tasks))
                  => get_job(jobs, t.post) # {}
       /\ \A p \in Posts :
              /\ DispatchStarts(p) => get_job(Table', p) = {}
              /\ (/\ \E t \in BagToSet(tasks) : t.post = p /\ t.pc # "query"
                  /\ get_job(Table, p) = {}
                  /\ get_job(Table', p) # {})
                     => \E r \in reqs : r.post = p /\ CallsScheduler(r)]_vars

\* Witness of C22: a cancel request that found no job is between its two
\* steps while the timer dispatch of the post, which was in flight when the
\* request came, has gone on to its status update.
C22_Witness ==
    \E r \in reqs, t \in BagToSet(tasks) :
        /\ r.kind = "cancel" /\ ~r.ret
        /\ t.post = r.post /\ t.kind = "timer" /\ t.pc = "update"
        /\ hist[r.post].lastRet = "cancel_false"
        /\ store[r.post].status = SCHEDULED
        /\ get_job(jobs, r.post) = {}

\* A sweep run enters _publish_post for post p in this step.
SweepDispatches(p) ==
    \E t \in BagToSet(tasks') :
        /\ t.kind = "sweep" /\ t.pc = "get" /\ t.post = p
        /\ CopiesIn(t, tasks') > CopiesIn(t, tasks)

\* C23: the sweep dispatches a post only when its lookup, made in the same
\* step, finds no job for the post's id in the job table: a post that has a
\* job is not dispatched by the sweep, due or not. A post dispatched when the
\* store answers the run's query is Scheduled and due.
C23_SweepSkipsPostsWithJob ==
    [][\A p \in Posts :
          SweepDispatches(p)
              => /\ Running
                 /\ get_job(jobs, p) = {}
                 /\ tasks # tasks'
                 /\ (\E t \in BagToSet(tasks) :
                         /\ t.kind = "sweep" /\ t.pc = "query"
                         /\ CopiesIn(t, tasks') < CopiesIn(t, tasks))
                        => /\ store[p].exists
                           /\ store[p].status = SCHEDULED
                           /\ store[p].scheduled_at # None
                           /\ store[p].scheduled_at <= now]_vars

\* Witness of C23: a sweep run is dispatching a post that is overdue and has
\* no job: the job a schedule request registered has left the table.
C23_Witness ==
    \E t \in BagToSet(tasks) :
        /\ t.kind = "sweep" /\ t.pc = "get"
        /\ store[t.post].status = SCHEDULED
        /\ store[t.post].scheduled_at < now
        /\ hist[t.post].lastRet = "true"
        /\ ~hist[t.post].regSinceFire
        /\ get_job(jobs, t.post) = {}

\* C24 as stated: a dispatch whose status update reaches a post that is no
\* longer Scheduled (it was set Draft or Archived after the schedule request
\* that registered the job) leaves the post's status as it is.
C24_PublishedOnlyFromScheduled ==
    [][\A t \in BagToSet(tasks) :
          (/\ Applies(t)
           /\ store[t.post].status \in {DRAFT, ARCHIVED}
           /\ hist[t.post].lastRet = "true")
              => store'[t.post].status = store[t.post].status]_vars

\* C25 as stated: the store step of a cancel request whose post is not
\* Scheduled and had no job leaves the post's status and scheduled_at as they
\* are.
C25_CancelOnlyFromScheduled ==
    [][\A r \in reqs \ reqs' :
          (/\ r.kind = "cancel" /\ ~r.ret
           /\ store[r.post].exists
           /\ store[r.post].status # SCHEDULED
           /\ get_job(Table, r.post) = {})
              => /\ store'[r.post].status = store[r.post].status
                 /\ store'[r.post].scheduled_at = store[r.post].scheduled_at]_vars

(***************************************************************************)
(* Failures during a dispatch. The store holds two posts that are          *)
(* Scheduled and due, as a sweep finds them after a restart; the second    *)
(* may have a job of its own. A post can be deleted while a sweep run is   *)
(* under way, the publisher can fail and the store can fail.               *)
(***************************************************************************)
ContainInit ==
    /\ now = 0
    /\ state = "running"
    /\ jobs \in SUBSET {Job(PostOrder[2], MaxTime, tok) : tok \in Tokens}
    /\ pending = {}
    /\ store = [p \in Posts |->
                   [exists |-> TRUE, status |-> SCHEDULED, scheduled_at |-> 0,
                    facebook_post_id |-> NoId]]
    /\ reqs = {}
    /\ tasks = EmptyBag
    /\ defaultToken \in {NoToken, ConfigToken}
    /\ ops = 0
    /\ hist = [p \in Posts |-> NoHistory]

ContainNext ==
    \/ Tick
    \/ SweepRun
    \/ \E t \in BagToSet(tasks) : SweepQuery(t)
    \/ \E t \in BagToSet(tasks) : SweepQueryFails(t)
    \/ \E j \in jobs : Fire(j)
    \/ \E p \in Posts : DeleteJob(p)
    \/ \E r \in reqs : DeleteStore(r)
    \/ \E r \in reqs : DeleteStoreFails(r)
    \/ \E t \in BagToSet(tasks), ok \in BOOLEAN : DispatchGet(t, ok)
    \/ \E t \in BagToSet(tasks) : DispatchGetFails(t)
    \/ \E t \in BagToSet(tasks) : DispatchUpdate(t)
    \/ \E t \in BagToSet(tasks) : DispatchUpdateFails(t)
    \/ \E t \in BagToSet(tasks) : DispatchReread(t)
    \/ \E t \in BagToSet(tasks) : DispatchRereadFails(t)

ContainSpec == ContainInit /\ [][ContainNext]_vars

\* The publisher call of coroutine t fails in this step.
PublisherFails(t) ==
    \E u \in BagToSet(tasks') :
        Proceeds(t, u) /\ u.token # NoToken /\ u.fbid = NoId

\* C26: a dispatch that fails on its post (the post is missing or its lookup
\* fails, the publisher call fails or the status update fails) leaves the
\* scheduler running and the job table and every other coroutine as they
\* are. After a failed publisher call the dispatch goes on to its status
\* update. When a sweep's dispatch ends in a failure, the sweep run goes on,
\* in the same step, to the next of its due posts that has no job.
C26_FailureDoesNotHalt ==
    [][\A t \in BagToSet(tasks) :
          (\/ Abandons(t)
           \/ UpdateFails(t)
           \/ PublisherFails(t))
              => /\ state' = "running"
                 /\ jobs' = jobs /\ pending' = pending /\ store' = store
                 /\ \A o \in BagToSet(tasks) \ {t} :
                        CopiesIn(o, tasks') >= CopiesIn(o, tasks)
                 /\ (t.kind = "sweep" /\ ~PublisherFails(t)
                        /\ NextIdx(t.todo, jobs) # 0)
                        => \E u \in BagToSet(tasks') :
                               /\ u.kind = "sweep" /\ u.pc = "get"
                               /\ u.post = t.todo[NextIdx(t.todo, jobs)]
                               /\ Len(u.todo) < Len(t.todo)
                               /\ CopiesIn(u, tasks') > CopiesIn(u, tasks)]_vars

\* Witness of C26: the status update of the first post failed in a sweep run,
\* and the same run is dispatching the second post.
C26_Witness ==
    \E t \in BagToSet(tasks) :
        /\ t.kind = "sweep" /\ t.pc \in {"get", "update"}
        /\ t.post = PostOrder[2]
        /\ hist[PostOrder[1]].lastWriter = "failed"
        /\ store[PostOrder[1]].status = SCHEDULED
        /\ get_job(jobs, PostOrder[1]) = {}
        /\ state = "running"

(***************************************************************************)
(* Overlapping sweep runs: the interval job fires every minute, and        *)
(* job_defaults allows max_instances runs of it at once, so a run whose    *)
(* dispatch is still waiting for the store when the next minute comes is   *)
(* joined by a second run.                                                 *)
(***************************************************************************)
SweepOverlapping == SweepStarts(max_instances)

OverlapNext ==
    \/ Tick
    \/ SweepOverlapping
    \/ \E t \in BagToSet(tasks) : SweepQuery(t)
    \/ \E t \in BagToSet(tasks), ok \in BOOLEAN : DispatchGet(t, ok)
    \/ \E t \in BagToSet(tasks) : DispatchUpdate(t)
    \/ \E t \in BagToSet(tasks) : DispatchReread(t)

OverlapSpec == ContainInit /\ [][OverlapNext]_vars

\* C27 as stated: a sweep run does not dispatch a post that another sweep run
\* is dispatching, that is, whose dispatch by a sweep is still in flight.
C27_OverlappingSweepsDispatchOnce ==
    [][\A p \in Posts :
          SweepDispatches(p)
              => ~\E t \in BagToSet(tasks) :
                       t.kind = "sweep" /\ t.post = p]_vars

\* C28 as stated: for a post scheduled by a schedule request, a sweep dispatch
\* publishes with the default credential, and a token captured at schedule
\* time is used for a publisher call only by a timer dispatch and only while
\* the job that holds it is in the job table.
C28_CapturedTokenOnlyWithJob ==
    [][\A t \in BagToSet(tasks), u \in BagToSet(tasks') :
          Proceeds(t, u) /\ hist[t.post].lastRet = "true"
              => /\ t.kind = "sweep" => u.token = defaultToken
                 /\ u.token \in Tokens
                        => /\ t.kind = "timer"
                           /\ \E j \in jobs :
                                  j.id = t.post /\ j.token = u.token]_vars

(***************************************************************************)
(* Images: POST /posts/{id}/images and DELETE /posts/{id}/images/{name}.   *)
(* A document carries its images as the list of their file names; a file   *)
(* name is the uuid4 the service draws, written <<request, index>>.        *)
(***************************************************************************)
MaxImages == 5          \* "Maximum 5 images allowed per post"

\* A post as create_post leaves it: PostInDB's images default to [].
ImageDocuments ==
    {[exists |-> TRUE, status |-> DRAFT, scheduled_at |-> None,
      facebook_post_id |-> NoId, images |-> <<>>]}

\* PostService.add_images_to_post lines 171-175: the count check.
image_count_allowed(current_image_count, new_image_count) ==
    current_image_count + new_image_count <= MaxImages

\* PostRepository.add_images_to_post: $push with $each appends the images to
\* the document the filter finds; no document, nothing modified.
add_images_to_post(st, post_id, images) ==
    IF st[post_id].exists
    THEN [st EXCEPT ![post_id].images = @ \o images]
    ELSE st

\* PostRepository.remove_image_from_post: $pull of the images with the name.
remove_image_from_post(st, post_id, image_filename) ==
    IF st[post_id].exists
    THEN [st EXCEPT ![post_id].images =
                        SelectSeq(@, LAMBDA img : img # image_filename)]
    ELSE st

ImageInit ==
    /\ now = 0
    /\ state = "running"
    /\ jobs = {}
    /\ pending = {}
    /\ store \in StoresOf(ImageDocuments)
    /\ reqs = {}
    /\ tasks = EmptyBag
    /\ defaultToken = NoToken
    /\ ops = 0
    /\ hist = [p \in Posts |-> [accepted |-> 0, rejected |-> 0]]

\* upload_images up to the await of the repository's push: the handler takes
\* 1..5 files, the service reads the post, checks the count and processes the
\* files (no await between the read's result and the push's call).
UploadImagesRead(p, n) ==
    /\ ops < MaxOps
    /\ ops' = ops + 1
    /\ Cardinality(reqs) < MaxUploads
    /\ store[p].exists
    /\ image_count_allowed(Len(store[p].images), n)
    /\ reqs' = reqs \cup {[kind |-> "images", post |-> p,
                           images |-> [i \in 1..n |-> <<ops, i>>]]}
    /\ UNCHANGED <<now, state, jobs, pending, store, tasks, defaultToken,
                   hist>>

\* The same request when the check fails: ValueError, answered 400.
UploadImagesRejected(p, n) ==
    /\ ops < MaxOps
    /\ ops' = ops + 1
    /\ store[p].exists
    /\ ~image_count_allowed(Len(store[p].images), n)
    /\ hist' = [hist EXCEPT ![p].rejected = @ + 1]
    /\ UNCHANGED <<now, state, jobs, pending, store, reqs, tasks,
                   defaultToken>>

\* The rest of the request: the push, then the read for the response.
UploadImagesPush(r) ==
    /\ r \in reqs
    /\ r.kind = "images"
    /\ store' = add_images_to_post(store, r.post, r.images)
    /\ reqs' = reqs \ {r}
    /\ hist' = [hist EXCEPT ![r.post].accepted = @ + 1]
    /\ UNCHANGED <<now, state, jobs, pending, tasks, defaultToken, ops>>

\* The same step when the store raises at the push: the repository and the
\* service re-raise, the handler answers 400 and the request ends; the post's
\* images are as they were.
UploadImagesPushFails(r) ==
    /\ r \in reqs
    /\ r.kind = "images"
    /\ ops < MaxOps
    /\ ops' = ops + 1
    /\ reqs' = reqs \ {r}
    /\ UNCHANGED <<now, state, jobs, pending, store, tasks, defaultToken,
                   hist>>

\* DELETE /posts/{id}/images/{name}.
RemoveImage(p, image_filename) ==
    /\ ops < MaxOps
    /\ ops' = ops + 1
    /\ \E i \in 1..Len(store[p].images) : store[p].images[i] = image_filename
    /\ store' = remove_image_from_post(store, p, image_filename)
    /\ UNCHANGED <<now, state, jobs, pending, reqs, tasks, defaultToken,
                   hist>>

ImageNext ==
    \/ \E p \in Requested, n \in 1..MaxImages : UploadImagesRead(p, n)
    \/ \E p \in Requested, n \in 1..MaxImages : UploadImagesRejected(p, n)
    \/ \E r \in reqs : UploadImagesPush(r)
    \/ \E r \in reqs : UploadImagesPushFails(r)
    \/ \E p \in Requested, k \in 0..MaxOps, i \in 1..MaxImages :
           RemoveImage(p, <<k, i>>)

ImageSpec == ImageInit /\ [][ImageNext]_vars

\* C29 as stated: in every reachable state a post holds at most 5 images,
\* add-images requests that run concurrently included.
C29_AtMostFiveImages ==
    \A p \in Posts : store[p].exists => Len(store[p].images) <= MaxImages

(***************************************************************************)
(* Content: documents with every field of PostInDB but the two timestamps  *)
(* the store maintains. The posts are Scheduled for time 1, with or        *)
(* without a timer job; while the timer and the sweep dispatch them,       *)
(* update requests rewrite content fields and image requests add and       *)
(* remove images.                                                          *)
(***************************************************************************)
ContentDocuments ==
    {[exists |-> TRUE, status |-> SCHEDULED, scheduled_at |-> 1,
      facebook_post_id |-> NoId, title |-> t, description |-> "Good shape",
      price |-> 5000, category |-> "electronics", location |-> "Austin",
      images |-> i] :
        t \in {"Bike", "Desk lamp"}, i \in {<<>>, <<<<0, 1>>, <<0, 2>>>>}}

\* Bodies of PUT /posts/{id} that rewrite content fields.
ContentBodies ==
    {[title |-> "A", description |-> "Two lines\nof text"],
     [price |-> 1999, category |-> "vehicles", location |-> "New York"]}

ContentInit ==
    /\ now = 0
    /\ state = "running"
    /\ jobs \in SUBSET {Job(p, 1, tok) : p \in Requested, tok \in Tokens}
    /\ Cardinality(jobs) <= 1
    /\ pending = {}
    /\ store \in StoresOf(ContentDocuments)
    /\ reqs = {}
    /\ tasks = EmptyBag
    /\ defaultToken = ConfigToken
    /\ ops = 0
    /\ hist = [p \in Posts |->
                  [f \in DOMAIN NoHistory \cup {"accepted", "rejected"} |->
                      IF f \in DOMAIN NoHistory THEN NoHistory[f] ELSE 0]]

ContentNext ==
    \/ Tick
    \/ SweepRun
    \/ \E t \in BagToSet(tasks) : SweepQuery(t)
    \/ \E t \in BagToSet(tasks) : SweepQueryFails(t)
    \/ \E j \in jobs : Fire(j)
    \/ \E t \in BagToSet(tasks), ok \in BOOLEAN : DispatchGet(t, ok)
    \/ \E t \in BagToSet(tasks) : DispatchGetFails(t)
    \/ \E t \in BagToSet(tasks) : DispatchUpdate(t)
    \/ \E t \in BagToSet(tasks) : DispatchUpdateFails(t)
    \/ \E t \in BagToSet(tasks) : DispatchReread(t)
    \/ \E t \in BagToSet(tasks) : DispatchRereadFails(t)
    \/ \E p \in Requested, body \in ContentBodies : UpdatePost(p, body)
    \/ \E p \in Requested, n \in {4} : UploadImagesRead(p, n)
    \/ \E p \in Requested, n \in {4} : UploadImagesRejected(p, n)
    \/ \E r \in reqs : UploadImagesPush(r)
    \/ \E r \in reqs : UploadImagesPushFails(r)
    \/ \E p \in Requested, k \in 0..MaxOps, i \in 1..MaxImages :
           RemoveImage(p, <<k, i>>)

ContentSpec == ContentInit /\ [][ContentNext]_vars

\* C30: a dispatch leaves the post's scheduled_at and its content fields
\* (title, description, price, category, location, images) unchanged: its
\* lookup and publisher call write nothing, and its update writes no field
\* but status and facebook_post_id, on its own post only.
C30_DispatchKeepsContent ==
    [][\A t \in BagToSet(tasks) :
          CopiesIn(t, tasks') < CopiesIn(t, tasks) /\ state' = state
              => /\ t.pc = "get" => store' = store
                 /\ \A p \in Posts :
                        /\ DOMAIN store'[p] = DOMAIN store[p]
                        /\ p # t.post => store'[p] = store[p]
                        /\ \A f \in DOMAIN store[p] :
                               f \notin {"status", "facebook_post_id"}
                                   => store'[p][f] = store[p][f]]_vars

\* Witness of C30: a dispatch has published a post whose title an update
\* request rewrote and that holds two images: it is Published, still carries
\* the scheduled_at it was scheduled for, and its content is as the requests
\* left it.
C30_Witness ==
    \E p \in Posts :
        /\ store[p].exists
        /\ store[p].status = PUBLISHED
        /\ store[p].scheduled_at = 1
        /\ store[p].title = "A"
        /\ store[p].price = 5000
        /\ Len(store[p].images) = 2

====
